---- MODULE Spec2Model ----
(***************************************************************************)
(* A model of conductor's run-target resolver (src/lib/project.rs) and of  *)
(* its process supervisor (src/lib/supervisor.rs).                         *)
(*                                                                         *)
(* The main thread resolves the target names (run_names), spawns one       *)
(* worker thread per component and then runs the event loop                *)
(* (Supervisor::init).  Worker threads, their child processes and the      *)
(* interrupt handler run concurrently with it.                             *)
(***************************************************************************)
EXTENDS Integers, Sequences, FiniteSets, TLC

\* Bounds of the model.
MaxLines == 2       \* lines a child process writes at most
MaxRespawn == 1     \* natural exits in one chain of retries
MaxStack == 6       \* nested calls of the resolver the stack has room for
MaxInterrupts == 1  \* times the interrupt handler fires

----------------------------------------------------------------------------
\* Commands (src/lib/mod.rs)

Single(s) == [kind |-> "Single", s |-> s, v |-> <<>>]
Multiple(v) == [kind |-> "Multiple", s |-> "", v |-> v]

\* An iterator whose Multiple drops the element before the one it yields.
CommandsNextSkipping(c) ==
  IF c.kind = "Single"
  THEN [some |-> TRUE, item |-> c.s, rest |-> Multiple(<<>>)]
  ELSE IF c.v = <<>>
       THEN [some |-> FALSE, item |-> "", rest |-> c]
       ELSE [some |-> TRUE, item |-> c.v[Len(c.v)],
             rest |-> Multiple(SubSeq(c.v, 1, Len(c.v) - 2))]

\* Iterator::next for Commands: the item (when there is one) and the value
\* left behind.  A Single is replaced by an empty Multiple; a Multiple pops
\* its LAST element.
CommandsNext(c) ==
  IF c.kind = "Single"
  THEN [some |-> TRUE, item |-> c.s, rest |-> Multiple(<<>>)]
  ELSE IF c.v = <<>>
       THEN [some |-> FALSE, item |-> "", rest |-> c]
       ELSE [some |-> TRUE, item |-> c.v[Len(c.v)],
             rest |-> Multiple(SubSeq(c.v, 1, Len(c.v) - 1))]

\* Into<Vec<String>> for Commands: self.into_iter().collect()
RECURSIVE CommandsIntoVec(_)
CommandsIntoVec(c) ==
  LET n == CommandsNext(c)
  IN IF n.some THEN <<n.item>> \o CommandsIntoVec(n.rest) ELSE <<>>

\* The command strings in the order the configuration declares them.
Declared(c) == IF c.kind = "Single" THEN <<c.s>> ELSE c.v

----------------------------------------------------------------------------
\* The project under supervision: a configuration with every kind of target
\* and with names that collide across kinds and differ in letter case.

Task(n, deps, cmds) == [name |-> n, dependencies |-> deps, commands |-> cmds]

Component(n, r, k, svcs, e, ts) ==
  [name |-> n, retry |-> r, keep_alive |-> k, services |-> svcs,
   env |-> e, tasks |-> ts]

Components ==
  << Component("api", FALSE, FALSE, <<"db">>,
               {<<"PORT", "1">>, <<"MODE", "cmp">>, <<"DIR", "%HOME%">>},
               << Task("build", <<>>, Multiple(<<"b1", "b2">>)),
                  Task("pack", <<"api:build">>, Single("p1")) >>),
     Component("web", TRUE, FALSE, <<"DB">>, {}, <<>>),
     Component("job", FALSE, TRUE, <<"db", "mq">>, {}, <<>>),
     Component("bad", FALSE, FALSE, <<>>, {}, <<>>),
     Component("cron", TRUE, FALSE, <<>>, {}, <<>>) >>

Groups ==
  << [name |-> "all", components |-> <<"api", "ghost", "web">>,
      env |-> {<<"MODE", "grp">>, <<"TIER", "t">>}],
     [name |-> "none", components |-> <<"ghost">>, env |-> {}],
     [name |-> "web", components |-> <<"job">>, env |-> {}] >>

Services == << [name |-> "db"], [name |-> "mq"] >>

Tasks ==
  << Task("lint", <<>>, Multiple(<<"l1", "l2">>)),
     Task("test", <<>>, Single("t1")),
     Task("ci", <<"lint", "test">>, Multiple(<<"c1">>)),
     Task("mix", <<"api:build", "lint">>, Multiple(<<"m1">>)),
     Task("job", <<>>, Single("j1")),
     Task("dup", <<>>, Multiple(<<"d", "d", "e">>)),
     Task("noop", <<>>, Multiple(<<>>)),
     Task("up", <<"cron", "lint">>, Single("u1")),
     Task("ping", <<"pong">>, Single("g1")),
     Task("pong", <<"ping">>, Single("g2")) >>

\* str::to_lowercase on the strings that occur in a run.
to_lowercase(s) ==
  CASE s = "API" -> "api"
    [] s = "DB" -> "db"
    [] s = "Lint" -> "lint"
    [] s = "All" -> "all"
    [] OTHER -> s

\* std::env::vars() of the supervising process.
ProcessEnv == {<<"HOME", "h">>, <<"PORT", "0">>, <<"MODE", "sys">>}

\* Environment of the run: the start command of "bad" cannot be executed
\* (exec.popen() returns Err), the container of "mq" cannot be started, and
\* only the process of "api" writes output.
popen_ok(c) == Components[c].name # "bad"
Lines(c) == IF Components[c].name = "api" THEN MaxLines ELSE 0
start_ok(s) == Services[s].name # "mq"

\* Component::repo and Component::init of the components: "web" and "cron"
\* have no repository, "web" declares an init command all the same.
repo(c) ==
  CASE Components[c].name = "api" -> "r-api"
    [] Components[c].name = "job" -> "r-job"
    [] Components[c].name = "bad" -> "r-bad"
    [] OTHER -> "None"

init(c) ==
  CASE Components[c].name = "api" -> <<"i1", "i2">>
    [] Components[c].name = "web" -> <<"w1">>
    [] Components[c].name = "bad" -> <<"x1">>
    [] OTHER -> <<>>

----------------------------------------------------------------------------
\* Lookups of the project (src/lib/project.rs).  0 stands for None.

First(S) == IF S = {} THEN 0 ELSE CHOOSE i \in S : \A j \in S : i <= j

service_by_name(name) ==
  First({i \in DOMAIN Services :
           to_lowercase(Services[i].name) = to_lowercase(name)})

find_component(name) ==
  First({i \in DOMAIN Components :
           to_lowercase(Components[i].name) = to_lowercase(name)})

find_group(name) ==
  First({i \in DOMAIN Groups :
           to_lowercase(Groups[i].name) = to_lowercase(name)})

find_project_task(name) ==
  First({i \in DOMAIN Tasks :
           to_lowercase(Tasks[i].name) = to_lowercase(name)})

\* format!("{}:{}", c.name, t.name)
TaskKey(c, t) == Components[c].name \o ":" \o Components[c].tasks[t].name

\* The first component with a matching task, and that task: <<c, t>>, or
\* <<0, 0>> for None.
find_component_task(name) ==
  LET hit(c) == First({t \in DOMAIN Components[c].tasks :
                         to_lowercase(name) = to_lowercase(TaskKey(c, t))})
      c0 == First({c \in DOMAIN Components : hit(c) # 0})
  IN IF c0 = 0 THEN <<0, 0>> ELSE <<c0, hit(c0)>>

----------------------------------------------------------------------------
\* Services of a component (src/lib/supervisor.rs, src/lib/service.rs)

Reverse(q) == [i \in 1..Len(q) |-> q[Len(q) + 1 - i]]

IsSome(x) == x # 0

\* component.services.iter().map(service_by_name).flatten().collect()
ComponentServices(c) ==
  LET found == [i \in 1..Len(Components[c].services) |->
                  service_by_name(Components[c].services[i])]
  IN SelectSeq(found, IsSome)

\* ServiceLauncher and ServiceTerminator pop their Vec: the services are
\* started, and stopped, last declared first.
\* A launcher that gives up at the first service that does not start.
RECURSIVE UntilFailure(_)
UntilFailure(q) ==
  IF q = <<>> THEN <<>>
  ELSE IF start_ok(Head(q)) THEN <<Head(q)>> \o UntilFailure(Tail(q))
       ELSE <<Head(q)>>

LaunchOrderUntilFailure(c) == UntilFailure(Reverse(ComponentServices(c)))

LaunchOrder(c) == Reverse(ComponentServices(c))

StartedBy(q) == {q[i] : i \in {j \in 1..Len(q) : start_ok(q[j])}}

StartLog(q) == [i \in 1..Len(q) |-> <<"svc_start", q[i], start_ok(q[i])>>]

StopLog(q) == [i \in 1..Len(q) |-> <<"svc_stop", q[i], TRUE>>]

----------------------------------------------------------------------------
VARIABLES
  names,         \* the target names given to run_names
  failing,       \* names of the tasks whose command run returns Err
  pc,            \* where the main thread is
  stack,         \* call stack of run_task_names / run_*_task
  ret,           \* result handed back by the call that just returned
  idx,           \* position in names of the component or group pass
  gidx,          \* position in the member list of the group being expanded
  task_running,  \* run_names: a task was run
  cmp_running,   \* run_names: a component was spawned
  result,        \* what run_names returned
  log,           \* what the main thread did, in order
  svcUp,         \* services whose container is started
  workers,       \* Supervisor.workers, the registry
  threads,       \* per Worker: its spawn thread, reader thread and process
  chan,          \* per Worker: the events on its data channel
  kill,          \* per Worker: the signals on its kill channel
  running,       \* the shared AtomicBool of Supervisor::init
  hpc,           \* where the interrupt handler is
  interrupts,    \* times the interrupt handler fired
  retryOf,       \* the Worker whose shutdown event the loop is retrying
  rendered,      \* output lines written to the console, in order
  stops,         \* per service: stop calls made by init's teardown
  obs,           \* per Worker: start and shutdown events the loop received
  hist,          \* what the interrupt handler saw and did
  lock           \* who holds the lock of the registry: "free" or "loop"

vars == << names, failing, pc, stack, ret, idx, gidx, task_running,
           cmp_running, result, log, svcUp, workers, threads, chan, kill,
           running, hpc, interrupts, retryOf, rendered, stops, obs, hist,
           lock >>

resolverVars == << stack, ret, idx, gidx, task_running, cmp_running,
                   result, log >>

supervisorVars == << workers, threads, chan, kill, running, hpc, interrupts,
                     retryOf, rendered, stops, obs, hist, lock >>

----------------------------------------------------------------------------
\* Tasks and the call stack of the resolver

TaskOf(c, t) == IF c = 0 THEN Tasks[t] ELSE Components[c].tasks[t]

\* SupervisedCommand.name
TaskName(c, t) == IF c = 0 THEN Tasks[t].name ELSE TaskKey(c, t)

Frame(fn, ns, c, t) ==
  [fn |-> fn, names |-> ns, phase |-> IF fn = "rtn" THEN "proj" ELSE "deps",
   i |-> 1, tr |-> FALSE, c |-> c, t |-> t]

Top == stack[Len(stack)]

Pop == SubSeq(stack, 1, Len(stack) - 1)

SetTop(f) == [stack EXCEPT ![Len(stack)] = f]

\* Supervisor::run(cmd): the commands handed over are run one at a time, in
\* the order of the Vec; a failing task stops at its first command.
SuprRun(name, cmds) ==
  IF name \in failing /\ cmds # <<>>
  THEN << <<"cmd", name, cmds[1]>> >>
  ELSE [i \in 1..Len(cmds) |-> <<"cmd", name, cmds[i]>>]

SuprRunResult(name) == IF name \in failing THEN "err" ELSE "ok"

----------------------------------------------------------------------------
\* Supervisor::spawn_component (src/lib/supervisor.rs)

Event(body, c, arg) == [body |-> body, component |-> c, arg |-> arg]

\* The events spawn_component sends while it starts the services.
ServiceEvents(c) ==
  LET q == LaunchOrder(c)
  IN [i \in 1..Len(q) |->
        IF start_ok(q[i]) THEN Event("ServiceStart", c, q[i])
                          ELSE Event("ComponentError", c, q[i])]

Worker(c, extra_env, parent) ==
  [component |-> c, extra_env |-> extra_env, running |-> TRUE,
   completed |-> FALSE, parent |-> parent]

\* Environments are sets of <<key, value>> pairs with one value per key.
Keys(e) == {p[1] : p \in e}

Get(e, k) == (CHOOSE p \in e : p[1] = k)[2]

\* HashMap::extend: the pairs of b replace those of a with the same key.
Extend(a, b) == {p \in a : p[1] \notin Keys(b)} \cup b

\* expand_env(v): a %NAME% token is replaced by the value NAME has in the
\* environment of the supervising process; a string without a token, or
\* with a token that has no value, is left as it is.
expand_env(v) ==
  IF v = "%HOME%" /\ "HOME" \in Keys(ProcessEnv) THEN Get(ProcessEnv, "HOME")
  ELSE v

\* An environment in which the component's env is laid over the extra env.
SpawnEnvComponentOnTop(c, extra_env) ==
  LET env == Extend(Extend(ProcessEnv, extra_env), Components[c].env)
  IN {<<p[1], expand_env(p[2])>> : p \in env}

\* The environment the spawn thread gives the process: the process
\* environment extended by component.env, then by extra_env, every value
\* expanded.
SpawnEnv(c, extra_env) ==
  LET env == Extend(Extend(ProcessEnv, Components[c].env), extra_env)
  IN {<<p[1], expand_env(p[2])>> : p \in env}

\* The spawn thread before it has run: no process yet.  gen counts the
\* retries that led to this Worker.
NewThread(parent) ==
  [pc |-> "spawn", proc |-> "none", env |-> {}, out |-> 0, pipe |-> 0,
   reader |-> FALSE,
   gen |-> IF parent = 0 THEN 0 ELSE threads[parent].gen + 1,
   exitFlag |-> "none"]

\* spawn_component(component, extra_env): the services are started, their
\* events sent, the thread created and the Worker pushed on the registry.
\* parent is the Worker whose shutdown event caused the call (0: none).
spawn_component(c, extra_env, parent) ==
  /\ lock = "free"
  /\ workers' = Append(workers, Worker(c, extra_env, parent))
  /\ threads' = Append(threads, NewThread(parent))
  /\ chan' = Append(chan, ServiceEvents(c))
  /\ kill' = Append(kill, 0)
  /\ obs' = Append(obs, [start |-> 0, shutdown |-> 0])
  /\ svcUp' = svcUp \cup StartedBy(LaunchOrder(c))

----------------------------------------------------------------------------
\* Project::run_task_names, run_project_task, run_component_task
\* (src/lib/project.rs)

\* The calls of the resolver nest deeper than the stack of the thread allows.
Overflow == Len(stack) > MaxStack

\* An error path that stops the services on its way out.
PropagateErrorServicesStopped ==
  /\ stack' = Pop
  /\ svcUp' = {}
  /\ UNCHANGED << ret, task_running, log >>

\* The ? operator: the error of the task is returned at once.
PropagateError ==
  /\ stack' = Pop
  /\ UNCHANGED << ret, task_running, log, svcUp >>

\* run_task_names(names): first every name that is a project task, then
\* every name that is a component-scoped task.  One step of the frame on top
\* of the stack.
run_task_names ==
  /\ pc = "run_task_names"
  /\ stack # <<>>
  /\ ~Overflow
  /\ Top.fn = "rtn"
  /\ LET f == Top
         n == IF f.i <= Len(f.names) THEN f.names[f.i] ELSE ""
         pt == find_project_task(n)
         ct == find_component_task(n)
     IN CASE ret = "err" ->
               PropagateError
          [] ret = "ok" /\ f.phase = "proj" ->
               /\ stack' = SetTop([f EXCEPT !.i = f.i + 1])
               /\ ret' = "none"
               /\ UNCHANGED << task_running, log, svcUp >>
          [] ret = "ok" /\ f.phase = "comp" ->
               \* shutdown_component_services, then task_running = true
               /\ stack' = SetTop([f EXCEPT !.i = f.i + 1, !.tr = TRUE])
               /\ ret' = "none"
               /\ log' = log \o StopLog(LaunchOrder(ct[1]))
               /\ svcUp' = svcUp \ {LaunchOrder(ct[1])[i] :
                                      i \in 1..Len(LaunchOrder(ct[1]))}
               /\ UNCHANGED task_running
          [] ret = "none" /\ f.phase = "proj" /\ f.i > Len(f.names) ->
               /\ stack' = SetTop([f EXCEPT !.phase = "comp", !.i = 1])
               /\ UNCHANGED << ret, task_running, log, svcUp >>
          [] ret = "none" /\ f.phase = "proj" /\ f.i <= Len(f.names) ->
               /\ stack' = IF pt = 0
                           THEN SetTop([f EXCEPT !.i = f.i + 1])
                           ELSE Append(SetTop([f EXCEPT !.tr = TRUE]),
                                       Frame("rpt", <<>>, 0, pt))
               /\ UNCHANGED << ret, task_running, log, svcUp >>
          [] ret = "none" /\ f.phase = "comp" /\ f.i > Len(f.names) ->
               \* Ok(task_running)
               /\ stack' = Pop
               /\ ret' = "ok"
               /\ task_running' = IF Len(stack) = 1 THEN f.tr ELSE task_running
               /\ UNCHANGED << log, svcUp >>
          [] ret = "none" /\ f.phase = "comp" /\ f.i <= Len(f.names) ->
               IF ct[1] = 0
               THEN /\ stack' = SetTop([f EXCEPT !.i = f.i + 1])
                    /\ UNCHANGED << ret, task_running, log, svcUp >>
               ELSE \* run_component_services, then run_component_task
                    /\ stack' = Append(stack, Frame("rct", <<>>, ct[1], ct[2]))
                    /\ log' = log \o StartLog(LaunchOrder(ct[1]))
                    /\ svcUp' = svcUp \cup StartedBy(LaunchOrder(ct[1]))
                    /\ UNCHANGED << ret, task_running >>
  /\ UNCHANGED << names, failing, pc, idx, gidx, cmp_running, result >>
  /\ UNCHANGED supervisorVars

\* A resolver that runs no dependency.
DependenciesSkipped(task) == <<>>

\* &task.dependencies
Dependencies(task) == task.dependencies

\* The body shared by run_project_task and run_component_task: the
\* dependencies are resolved by run_task_names, and only then the command
\* list, converted by Commands::into, is handed to Supervisor::run.
RunTask ==
  /\ LET f == Top
         task == TaskOf(f.c, f.t)
         name == TaskName(f.c, f.t)
         cmds == CommandsIntoVec(task.commands)
     IN CASE f.phase = "deps" ->
               /\ stack' = Append(SetTop([f EXCEPT !.phase = "run"]),
                                  Frame("rtn", Dependencies(task), 0, 0))
               /\ UNCHANGED << ret, log >>
          [] f.phase = "run" /\ ret = "err" ->
               /\ stack' = Pop
               /\ UNCHANGED << ret, log >>
          [] f.phase = "run" /\ ret # "err" ->
               /\ stack' = Pop
               /\ log' = log \o << <<"run", name, cmds, f.c, f.t>> >>
                               \o SuprRun(name, cmds)
               /\ ret' = SuprRunResult(name)
  /\ UNCHANGED << names, failing, pc, idx, gidx, task_running, cmp_running,
                  result, svcUp >>
  /\ UNCHANGED supervisorVars

\* run_project_task(supr, task)
run_project_task ==
  /\ pc = "run_task_names"
  /\ stack # <<>>
  /\ ~Overflow
  /\ Top.fn = "rpt"
  /\ RunTask

\* run_component_task(supr, component, task)
run_component_task ==
  /\ pc = "run_task_names"
  /\ stack # <<>>
  /\ ~Overflow
  /\ Top.fn = "rct"
  /\ RunTask

\* The call that does not fit on the stack faults: the runtime reports the
\* overflow and aborts the process.
stack_overflow ==
  /\ pc = "run_task_names"
  /\ Overflow
  /\ pc' = "aborted"
  /\ UNCHANGED << names, failing, svcUp >>
  /\ UNCHANGED resolverVars
  /\ UNCHANGED supervisorVars

----------------------------------------------------------------------------
\* Project::run_names (src/lib/project.rs)

\* group.env.clone(): the extra env handed to spawn_component for a member
\* of group g.
GroupExtraEnvNone(g) == {}

GroupExtraEnv(g) == Groups[g].env

\* if cmp_running || task_running { Ok(()) } else { Err("Nothing to run") }
RunNamesResultAlwaysOk == "ok"

RunNamesResultComponentsOnly ==
  IF cmp_running THEN "ok" ELSE "Nothing to run"

RunNamesResult ==
  IF cmp_running \/ task_running THEN "ok" ELSE "Nothing to run"

\* let task_running = self.run_task_names(&supr, &names)?;
run_names_tasks ==
  /\ pc = "run_task_names"
  /\ stack = <<>>
  /\ IF ret = "err"
     THEN /\ pc' = "returned"
          /\ result' = "task failed"
     ELSE /\ pc' = "components"
          /\ UNCHANGED result
  /\ ret' = "none"
  /\ UNCHANGED << names, failing, stack, idx, gidx, task_running,
                  cmp_running, log, svcUp >>
  /\ UNCHANGED supervisorVars

\* The pass over the names that are components.
run_names_components ==
  /\ pc = "components"
  /\ LET c == IF idx <= Len(names) THEN find_component(names[idx]) ELSE 0
     IN IF idx > Len(names)
        THEN /\ pc' = "groups"
             /\ idx' = 1
             /\ UNCHANGED << cmp_running, workers, threads, chan, kill, obs,
                             svcUp >>
        ELSE /\ idx' = idx + 1
             /\ UNCHANGED pc
             /\ IF c # 0
                THEN /\ spawn_component(c, {}, 0)
                     /\ cmp_running' = TRUE
                ELSE UNCHANGED << cmp_running, workers, threads, chan, kill,
                                  obs, svcUp >>
  /\ UNCHANGED << names, failing, stack, ret, gidx, task_running, result, log,
                  running, hpc, interrupts, retryOf, rendered, stops, hist,
                  lock >>

\* The pass over the names that are groups, one member at a time.
run_names_groups ==
  /\ pc = "groups"
  /\ LET g == IF idx <= Len(names) THEN find_group(names[idx]) ELSE 0
         members == IF g = 0 THEN <<>> ELSE Groups[g].components
         c == IF gidx <= Len(members) THEN find_component(members[gidx])
                                      ELSE 0
     IN IF idx > Len(names)
        THEN /\ pc' = "finish"
             /\ UNCHANGED << idx, gidx, cmp_running, workers, threads, chan,
                             kill, obs, svcUp >>
        ELSE /\ UNCHANGED pc
             /\ IF gidx > Len(members)
                THEN /\ idx' = idx + 1
                     /\ gidx' = 1
                     /\ UNCHANGED << cmp_running, workers, threads, chan,
                                     kill, obs, svcUp >>
                ELSE /\ gidx' = gidx + 1
                     /\ UNCHANGED idx
                     /\ IF c # 0
                        THEN /\ spawn_component(c, GroupExtraEnv(g), 0)
                             /\ cmp_running' = TRUE
                        ELSE UNCHANGED << cmp_running, workers, threads,
                                          chan, kill, obs, svcUp >>
  /\ UNCHANGED << names, failing, stack, ret, task_running, result, log,
                  running, hpc, interrupts, retryOf, rendered, stops, hist,
                  lock >>

\* A resolver that calls init whether or not a component was spawned.
run_names_finish_always_init ==
  /\ pc = "finish"
  /\ pc' = "loop"
  /\ log' = Append(log, <<"init">>)
  /\ UNCHANGED << names, failing, stack, ret, idx, gidx, task_running,
                  cmp_running, result, svcUp >>
  /\ UNCHANGED supervisorVars

\* if cmp_running { supr.init() }: the handler is installed and the event
\* loop entered; otherwise run_names returns.
run_names_finish ==
  /\ pc = "finish"
  /\ IF cmp_running
     THEN /\ pc' = "loop"
          /\ log' = Append(log, <<"init">>)
          /\ UNCHANGED result
     ELSE /\ pc' = "returned"
          /\ result' = RunNamesResult
          /\ UNCHANGED log
  /\ UNCHANGED << names, failing, stack, ret, idx, gidx, task_running,
                  cmp_running, svcUp >>
  /\ UNCHANGED supervisorVars

----------------------------------------------------------------------------
\* The spawn thread of a Worker, its reader thread and its child process
\* (src/lib/supervisor.rs, the closure of spawn_component)

\* A channel that delivers the newest event first.
SendFront(w, e) == [chan EXCEPT ![w] = <<e>> \o @]

\* data_sender.send(e): the channel of Worker w is first in, first out.
Send(w, e) == [chan EXCEPT ![w] = Append(@, e)]

\* exec.popen().unwrap(): the process is started, the start event sent and
\* the reader thread created; when the process cannot be started the thread
\* panics and its sender and kill receiver are dropped.
popen(w) ==
  /\ pc # "returned"
  /\ threads[w].pc = "spawn"
  /\ IF popen_ok(workers[w].component)
     THEN /\ threads' = [threads EXCEPT ![w].pc = "monitor",
                                        ![w].proc = "alive",
                                        ![w].env =
                                          SpawnEnv(workers[w].component,
                                                   workers[w].extra_env),
                                        ![w].reader = TRUE]
          /\ chan' = Send(w, Event("ComponentStart", workers[w].component, 0))
     ELSE /\ threads' = [threads EXCEPT ![w].pc = "panicked"]
          /\ UNCHANGED chan
  /\ UNCHANGED << names, failing, pc, workers, kill, running, hpc, interrupts,
                  retryOf, rendered, stops, obs, hist, svcUp, lock >>
  /\ UNCHANGED resolverVars

\* The child process writes a line to its output pipe.
process_write(w) ==
  /\ pc # "returned"
  /\ threads[w].proc = "alive"
  /\ threads[w].out < Lines(workers[w].component)
  /\ threads' = [threads EXCEPT ![w].out = @ + 1, ![w].pipe = @ + 1]
  /\ UNCHANGED << names, failing, pc, workers, chan, kill, running, hpc,
                  interrupts, retryOf, rendered, stops, obs, hist, svcUp,
                  lock >>
  /\ UNCHANGED resolverVars

\* The child process exits by itself.  exitFlag records whether the run was
\* already cancelled at that moment.
process_exit(w) ==
  /\ pc # "returned"
  /\ threads[w].proc = "alive"
  /\ \/ ~Components[workers[w].component].retry
     \/ threads[w].gen < MaxRespawn
  /\ threads' = [threads EXCEPT ![w].proc = "exited",
                   ![w].exitFlag = IF running THEN "running" ELSE "cancelled"]
  /\ UNCHANGED << names, failing, pc, workers, chan, kill, running, hpc,
                  interrupts, retryOf, rendered, stops, obs, hist, svcUp,
                  lock >>
  /\ UNCHANGED resolverVars

\* The reader thread forwards one line of the pipe as an output event.
reader_line(w) ==
  /\ pc # "returned"
  /\ threads[w].reader
  /\ threads[w].pipe > 0
  /\ chan' = Send(w, Event("Output", workers[w].component,
                           threads[w].out - threads[w].pipe + 1))
  /\ threads' = [threads EXCEPT ![w].pipe = @ - 1]
  /\ UNCHANGED << names, failing, pc, workers, kill, running, hpc, interrupts,
                  retryOf, rendered, stops, obs, hist, svcUp, lock >>
  /\ UNCHANGED resolverVars

\* The reader thread reads end-of-file and ends, dropping its sender.
reader_eof(w) ==
  /\ pc # "returned"
  /\ threads[w].reader
  /\ threads[w].pipe = 0
  /\ threads[w].proc \in {"exited", "killed"}
  /\ threads' = [threads EXCEPT ![w].reader = FALSE]
  /\ UNCHANGED << names, failing, pc, workers, chan, kill, running, hpc,
                  interrupts, retryOf, rendered, stops, obs, hist, svcUp,
                  lock >>
  /\ UNCHANGED resolverVars

\* ReadOutAdapter::read holds the lock of the Popen for the whole read: while
\* the reader waits for output of a live, silent process the lock is taken.
PopenLockFree(w) ==
  ~(threads[w].reader /\ threads[w].proc = "alive" /\ threads[w].pipe = 0)

\* A monitor loop that does not look at the exit status.
ExitBreaksNever(w) == FALSE

\* A monitor loop that leaves on any exit of the process.
ExitBreaksAlways(w) == threads[w].proc # "alive"

\* if let Ok(Some(_)) = p.wait_timeout(..) { if !component.keep_alive { break } }
ExitBreaks(w) ==
  threads[w].proc # "alive" /\ ~Components[workers[w].component].keep_alive

\* A monitor thread that leaves the process alone.
KillSkipped(proc) == proc

\* let _ = p.kill(): a process that is still alive is killed.
Kill(proc) == IF proc = "alive" THEN "killed" ELSE proc

\* The monitor loop of the spawn thread.  A round polls the exit status,
\* then the kill channel; the round that breaks the loop is followed by
\* p.kill() and the shutdown event, and the thread ends.  Rounds that find
\* neither change nothing.
monitor(w) ==
  /\ pc # "returned"
  /\ threads[w].pc = "monitor"
  /\ PopenLockFree(w)
  /\ IF ExitBreaks(w)
     THEN UNCHANGED kill
     ELSE /\ kill[w] > 0
          /\ kill' = [kill EXCEPT ![w] = @ - 1]
  /\ threads' = [threads EXCEPT ![w].pc = "done", ![w].proc = Kill(@)]
  /\ chan' = Send(w, Event("ComponentShutdown", workers[w].component, 0))
  /\ UNCHANGED << names, failing, pc, workers, running, hpc, interrupts,
                  retryOf, rendered, stops, obs, hist, svcUp, lock >>
  /\ UNCHANGED resolverVars

----------------------------------------------------------------------------
\* Supervisor::init (src/lib/supervisor.rs)

\* kill_signal.send(()): ignored when the receiver is gone.
KillSend(w) ==
  IF threads[w].pc \in {"done", "panicked"} THEN kill
  ELSE [kill EXCEPT ![w] = @ + 1]

\* A channel that a panic of the spawn thread leaves open.
DisconnectedOnlyWhenDone(w) ==
  threads[w].pc = "done" /\ ~threads[w].reader

\* Every sender of the Worker's data channel has been dropped.
Disconnected(w) ==
  threads[w].pc \in {"done", "panicked"} /\ ~threads[w].reader

IsRunning(i) == workers[i].running

\* workers.iter_mut().filter(|i| i.running).collect(): registry positions.
running_workers ==
  SelectSeq([i \in 1..Len(workers) |-> i], IsRunning)

\* The operation the select can return for position k of running_workers.
Ready(k) == chan[running_workers[k]] # <<>> \/ Disconnected(running_workers[k])

AllCompleted == \A i \in 1..Len(workers) : workers[i].completed

\* A loop that also halts on an empty registry.
LoopDoneWhenEmpty == AllCompleted

\* if workers.len() > 0 && workers.iter().all(|i| i.completed) { break }
LoopDone == Len(workers) > 0 /\ AllCompleted

\* A retry decision that reads the keep_alive flag in place of retry.
ShouldRetryOnKeepAlive(msg, r) ==
  Components[msg.component].keep_alive /\ ~workers[r].completed

\* The retry decision on a shutdown event of Worker r.
ShouldRetry(msg, r) ==
  Components[msg.component].retry /\ ~workers[r].completed

\* An Err arm that leaves the Worker to be waited for.
ChannelClosedUncompleted(r) ==
  /\ workers' = [workers EXCEPT ![r].running = FALSE,
                                ![r].completed = FALSE]
  /\ kill' = KillSend(r)
  /\ UNCHANGED << pc, chan, retryOf, rendered, obs >>

\* An Err arm that only takes the Worker out of the selection.
ChannelClosedNotCompleted(r) ==
  /\ workers' = [workers EXCEPT ![r].running = FALSE]
  /\ kill' = KillSend(r)
  /\ UNCHANGED << pc, chan, retryOf, rendered, obs >>

\* Err(_): the channel of Worker r is closed.
ChannelClosed(r) ==
  /\ workers' = [workers EXCEPT ![r].running = FALSE,
                                ![r].completed = TRUE]
  /\ kill' = KillSend(r)
  /\ UNCHANGED << pc, chan, retryOf, rendered, obs >>

\* A warning that also ends the Worker.
ReportedAndCompleted(r) ==
  /\ workers' = [workers EXCEPT ![r].completed = TRUE]
  /\ UNCHANGED << pc, retryOf, rendered, obs >>

\* ComponentError and ServiceStart of Worker r: a message is shown.
Reported(r) == UNCHANGED << pc, workers, retryOf, rendered, obs >>

\* What the loop does with the operation selected at position k.
HandleEvent(k) ==
  LET r == running_workers[k]
  IN IF chan[r] = <<>>
     THEN ChannelClosed(r)
     ELSE LET msg == Head(chan[r])
          IN /\ chan' = [chan EXCEPT ![r] = Tail(@)]
             /\ UNCHANGED kill
             /\ CASE msg.body = "Output" ->
                       \* ui::component_message(&workers[index].component, ..)
                       /\ rendered' = Append(rendered,
                            [tag |-> workers[k].component, from |-> r,
                             line |-> msg.arg])
                       /\ UNCHANGED << pc, workers, retryOf, obs >>
                  [] msg.body = "ComponentStart" ->
                       /\ obs' = [obs EXCEPT ![r].start = @ + 1]
                       /\ UNCHANGED << pc, workers, retryOf, rendered >>
                  [] msg.body \in {"ComponentError", "ServiceStart"} ->
                       Reported(r)
                  [] msg.body = "ComponentShutdown" ->
                       /\ obs' = [obs EXCEPT ![r].shutdown = @ + 1]
                       /\ UNCHANGED rendered
                       /\ IF ShouldRetry(msg, r)
                          THEN /\ pc' = "retry"
                               /\ retryOf' = r
                               /\ UNCHANGED workers
                          ELSE /\ workers' = [workers EXCEPT
                                                ![r].completed = TRUE]
                               /\ UNCHANGED << pc, retryOf >>

\* The loop gives up the lock on every way out of an iteration but this one.
LockKeptForRetry(p) == IF p = "retry" THEN "loop" ELSE "free"

\* drop(workers), written out or at the end of the scope of the guard: the
\* lock after an iteration that leaves the loop at position p.
LockAfter(p) == "free"

\* One iteration of the loop, from the check of line 220 on.
LoopIteration ==
  /\ IF LoopDone
     THEN /\ pc' = "teardown"
          /\ UNCHANGED << workers, chan, kill, retryOf, rendered, obs >>
     ELSE IF Len(workers) = 0
             \/ ~\E k \in 1..Len(running_workers) : Ready(k)
          THEN \* the sleep, or the timeout of the select
               UNCHANGED << pc, workers, chan, kill, retryOf, rendered, obs >>
          ELSE \E k \in 1..Len(running_workers) : Ready(k) /\ HandleEvent(k)
  /\ UNCHANGED << names, failing, threads, running, hpc, interrupts, stops,
                  hist, svcUp >>
  /\ UNCHANGED resolverVars

\* One iteration of the loop, under the lock of the registry: the lock is
\* taken, the iteration done and the lock given up in one step.
event_loop ==
  /\ pc = "loop"
  /\ lock = "free"
  /\ LoopIteration
  /\ lock' = LockAfter(pc')

\* The same iteration in two steps.  let mut workers = workers_lock.lock()
loop_lock ==
  /\ pc = "loop"
  /\ lock = "free"
  /\ lock' = "loop"
  /\ UNCHANGED << names, failing, pc, svcUp, workers, threads, chan, kill,
                  running, hpc, interrupts, retryOf, rendered, stops, obs,
                  hist >>
  /\ UNCHANGED resolverVars

\* The iteration under the lock taken by loop_lock.
loop_iteration ==
  /\ pc = "loop"
  /\ lock = "loop"
  /\ LoopIteration
  /\ lock' = LockAfter(pc')

\* Supervisor::init is entered while the registry is still empty: the handler
\* is installed and the loop starts.
init_unspawned ==
  /\ pc = "init"
  /\ log' = Append(log, <<"init">>)
  /\ pc' = "loop"
  /\ UNCHANGED << names, failing, stack, ret, idx, gidx, task_running,
                  cmp_running, result, svcUp >>
  /\ UNCHANGED supervisorVars

\* if running.load(Ordering::SeqCst), after the lock has been dropped
retry_check ==
  /\ pc = "retry"
  /\ pc' = IF running THEN "respawn" ELSE "loop"
  /\ UNCHANGED << names, failing, svcUp >>
  /\ UNCHANGED resolverVars
  /\ UNCHANGED supervisorVars

\* self.spawn_component(&msg.component.clone(), extra_env); continue
respawn ==
  /\ pc = "respawn"
  /\ spawn_component(workers[retryOf].component, workers[retryOf].extra_env,
                     retryOf)
  /\ pc' = "loop"
  /\ UNCHANGED << names, failing, running, hpc, interrupts, retryOf, rendered,
                  stops, hist, lock >>
  /\ UNCHANGED resolverVars

\* The service names of all Workers, as the HashSet holds them.
TeardownNames ==
  {Components[workers[i].component].services[j] :
     <<i, j>> \in {p \in (1..Len(workers)) \X (1..3) :
                     p[2] <= Len(Components[workers[p[1]].component].services)}}

\* After the loop: every name of the set is looked up and its service
\* stopped; then init returns, and run_names with it.
teardown ==
  /\ pc = "teardown"
  /\ lock = "free"
  /\ stops' = [s \in DOMAIN Services |->
                 stops[s] + Cardinality({n \in TeardownNames :
                                           service_by_name(n) = s})]
  /\ svcUp' = svcUp \ {service_by_name(n) : n \in TeardownNames}
  /\ pc' = "returned"
  /\ result' = RunNamesResult
  /\ UNCHANGED << names, failing, stack, ret, idx, gidx, task_running,
                  cmp_running, log, workers, threads, chan, kill, running,
                  hpc, interrupts, retryOf, rendered, obs, hist, lock >>

\* The interrupt handler starts: r.store(false)
interrupt ==
  /\ pc \in {"loop", "retry", "respawn", "teardown"}
  /\ hpc = "idle"
  /\ interrupts < MaxInterrupts
  /\ running' = FALSE
  /\ hpc' = "stored"
  /\ interrupts' = interrupts + 1
  /\ UNCHANGED << names, failing, pc, workers, threads, chan, kill, retryOf,
                  rendered, stops, obs, hist, svcUp, lock >>
  /\ UNCHANGED resolverVars

\* The interrupt handler under the lock of the registry: every Worker is
\* marked completed and every running one is sent a kill signal.
handler_mark ==
  /\ hpc = "stored"
  /\ lock = "free"
  /\ workers' = [i \in 1..Len(workers) |->
                   [workers[i] EXCEPT !.completed = TRUE]]
  /\ kill' = [i \in 1..Len(workers) |->
                IF workers[i].running THEN KillSend(i)[i] ELSE kill[i]]
  /\ hist' = Append(hist,
       [len |-> Len(workers),
        live |-> {i \in 1..Len(workers) : threads[i].proc = "alive"},
        ended |-> {i \in 1..Len(workers) :
                     threads[i].proc \in {"exited", "killed"}},
        killed |-> {i \in 1..Len(workers) : KillSend(i) # kill}])
  /\ hpc' = "idle"
  /\ UNCHANGED << names, failing, pc, threads, chan, running, interrupts,
                  retryOf, rendered, stops, obs, svcUp, lock >>
  /\ UNCHANGED resolverVars

----------------------------------------------------------------------------
\* Project::setup.

\* What one round of the loop does for a component with a repository: the
\* clone, and after a successful clone the init commands, each through
\* run_task_command.
SetupRoundInitAnyway(c, ok) ==
  << <<"clone", Components[c].name, ok>> >>
    \o [k \in 1..Len(init(c)) |-> <<"init_cmd", Components[c].name, init(c)[k]>>]

SetupRound(c, ok) ==
  IF ok
    THEN << <<"clone", Components[c].name, TRUE>> >>
           \o [k \in 1..Len(init(c)) |->
                 <<"init_cmd", Components[c].name, init(c)[k]>>]
    ELSE << <<"clone", Components[c].name, FALSE>> >>

\* One round of "for cmp in self.components.iter()"; whether the clone
\* succeeds depends on the file system and on the remote.
setup ==
  /\ pc = "setup"
  /\ IF idx > Len(Components)
       THEN /\ pc' = "setup_done"
            /\ UNCHANGED << idx, log >>
       ELSE /\ pc' = pc
            /\ idx' = idx + 1
            /\ IF repo(idx) = "None"
                 THEN UNCHANGED log
                 ELSE \E ok \in BOOLEAN : log' = log \o SetupRound(idx, ok)
  /\ UNCHANGED << names, failing, stack, ret, gidx, task_running,
                  cmp_running, result, svcUp >>
  /\ UNCHANGED supervisorVars

----------------------------------------------------------------------------
\* The runs that are checked: the target names given to run_names and the
\* tasks whose commands fail.

Run(ns, f) == [names |-> ns, failing |-> f, entry |-> "run_task_names"]

\* The setup command: Project::setup instead of Project::run_names.
SetupRun == [names |-> <<>>, failing |-> {}, entry |-> "setup"]

\* Supervisor::init on a Supervisor nothing has been spawned on.
InitRun == [names |-> <<>>, failing |-> {}, entry |-> "init"]

Runs ==
  { Run(<<"nope">>, {}), Run(<<"none">>, {}), Run(<<"all">>, {}),
    Run(<<"web">>, {}), Run(<<"job">>, {}), Run(<<"api">>, {}),
    Run(<<"API">>, {}), Run(<<"bad">>, {}), Run(<<"lint">>, {}),
    Run(<<"ci">>, {}), Run(<<"mix">>, {}), Run(<<"api:build">>, {}),
    Run(<<"nope", "api">>, {}), Run(<<"Lint", "nope">>, {}),
    Run(<<"api:build", "lint">>, {}), Run(<<"All", "nope">>, {}),
    Run(<<"job", "bad">>, {}), Run(<<"test", "none">>, {}),
    Run(<<"bad", "api">>, {}), Run(<<"api:pack">>, {}), Run(<<"cron">>, {}),
    Run(<<"dup">>, {}), Run(<<"noop", "test">>, {}), Run(<<"up">>, {}),
    Run(<<"ping">>, {}),
    Run(<<"lint">>, {"lint"}), Run(<<"ci">>, {"lint"}),
    Run(<<"mix">>, {"api:build"}), Run(<<"lint", "api">>, {"lint"}),
    Run(<<"api:build", "api:pack", "cron">>, {"api:build"}),
    Run(<<"api:pack">>, {"api:build"}),
    SetupRun }

\* The runs with a component whose process cannot be spawned, and runs that
\* exercise the tasks and the retry.
LiveRuns ==
  { Run(<<"bad">>, {}), Run(<<"job", "bad">>, {}), Run(<<"bad", "api">>, {}),
    Run(<<"cron">>, {}), Run(<<"mix">>, {}), SetupRun,
    Run(<<"ping">>, {}) }

InitOf(rs) ==
  /\ \E r \in rs : names = r.names /\ failing = r.failing /\ pc = r.entry
  /\ stack = << Frame("rtn", names, 0, 0) >>
  /\ ret = "none"
  /\ idx = 1
  /\ gidx = 1
  /\ task_running = FALSE
  /\ cmp_running = FALSE
  /\ result = "none"
  /\ log = <<>>
  /\ svcUp = {}
  /\ workers = <<>>
  /\ threads = <<>>
  /\ chan = <<>>
  /\ kill = <<>>
  /\ running = TRUE
  /\ hpc = "idle"
  /\ interrupts = 0
  /\ retryOf = 0
  /\ rendered = <<>>
  /\ stops = [s \in DOMAIN Services |-> 0]
  /\ obs = <<>>
  /\ hist = <<>>
  /\ lock = "free"

Init == InitOf(Runs)

\* The steps of everything but the iteration of the loop.
Steps ==
  \/ run_task_names
  \/ run_project_task
  \/ run_component_task
  \/ stack_overflow
  \/ run_names_tasks
  \/ run_names_components
  \/ run_names_groups
  \/ run_names_finish
  \/ setup
  \/ retry_check
  \/ respawn
  \/ teardown
  \/ interrupt
  \/ handler_mark
  \/ \E w \in 1..Len(workers) : popen(w)
  \/ \E w \in 1..Len(workers) : process_write(w)
  \/ \E w \in 1..Len(workers) : process_exit(w)
  \/ \E w \in 1..Len(workers) : reader_line(w)
  \/ \E w \in 1..Len(workers) : reader_eof(w)
  \/ \E w \in 1..Len(workers) : monitor(w)

Next == event_loop \/ Steps

Spec == Init /\ [][Next]_vars

\* The runs above and, next to them, init entered on a Supervisor nothing has
\* been spawned on.
InitNext == Next \/ init_unspawned

InitSpec == InitOf(LiveRuns \cup {InitRun}) /\ [][InitNext]_vars

----------------------------------------------------------------------------
\* What the claims speak about, read off the configuration itself.

ProjectTaskNames == {to_lowercase(Tasks[i].name) : i \in DOMAIN Tasks}

ComponentTaskNames ==
  {to_lowercase(TaskKey(p[1], p[2])) :
     p \in {q \in (DOMAIN Components) \X (1..2) :
              q[2] <= Len(Components[q[1]].tasks)}}

ComponentNames == {to_lowercase(Components[i].name) : i \in DOMAIN Components}

GroupNames == {to_lowercase(Groups[i].name) : i \in DOMAIN Groups}

ComponentNamed(n) ==
  First({c \in DOMAIN Components :
           to_lowercase(Components[c].name) = to_lowercase(n)})

GroupNamed(n) ==
  First({g \in DOMAIN Groups : to_lowercase(Groups[g].name) = to_lowercase(n)})

\* The first category a target name falls in.
Category(n) ==
  CASE to_lowercase(n) \in ProjectTaskNames -> "project task"
    [] to_lowercase(n) \in ComponentTaskNames -> "component task"
    [] to_lowercase(n) \in ComponentNames -> "component"
    [] to_lowercase(n) \in GroupNames -> "group"
    [] OTHER -> "none"

NameIndexes == 1..Len(names)

NoMatch == \A i \in NameIndexes : Category(names[i]) = "none"

\* run_names is past the resolution of the names and no task failed.
Resolved ==
  /\ pc \in {"finish", "loop", "retry", "respawn", "teardown", "returned"}
  /\ result # "task failed"

InitCalled == \E i \in 1..Len(log) : log[i][1] = "init"

ServiceTouched ==
  \E i \in 1..Len(log) : log[i][1] \in {"svc_start", "svc_stop"}

IsInitial(w) == w.parent = 0

Plain(w) == [component |-> w.component, extra_env |-> w.extra_env]

\* The Workers registered by run_names itself, in order.
Spawned ==
  LET ws == SelectSeq(workers, IsInitial)
  IN [i \in 1..Len(ws) |-> Plain(ws[i])]

\* The Workers of the retries of Worker w.
Children(w) == {x \in 1..Len(workers) : workers[x].parent = w}

\* One Worker per member of group g that names a component, in member order.
MemberSpawns(g) ==
  LET m == Groups[g].components
      cs == SelectSeq([j \in 1..Len(m) |-> ComponentNamed(m[j])], IsSome)
  IN [j \in 1..Len(cs) |-> [component |-> cs[j], extra_env |-> Groups[g].env]]

RECURSIVE ComponentSpawns(_)
ComponentSpawns(ns) ==
  IF ns = <<>> THEN <<>>
  ELSE (IF ComponentNamed(Head(ns)) # 0
        THEN << [component |-> ComponentNamed(Head(ns)), extra_env |-> {}] >>
        ELSE <<>>) \o ComponentSpawns(Tail(ns))

RECURSIVE GroupSpawns(_)
GroupSpawns(ns) ==
  IF ns = <<>> THEN <<>>
  ELSE (IF GroupNamed(Head(ns)) # 0 THEN MemberSpawns(GroupNamed(Head(ns)))
        ELSE <<>>) \o GroupSpawns(Tail(ns))

\* The run entry at position i of the log is followed by all its commands.
RunAt(i) == log[i][1] = "run"

RanToCompletion(i) ==
  /\ i + Len(log[i][3]) <= Len(log)
  /\ \A m \in 1..Len(log[i][3]) : log[i + m] = <<"cmd", log[i][2], log[i][3][m]>>

\* The task a dependency name stands for: <<c, t>>, <<0, 0>> when none.
DependencyTask(n) ==
  CASE Category(n) = "project task" ->
         <<0, First({t \in DOMAIN Tasks :
                       to_lowercase(Tasks[t].name) = to_lowercase(n)})>>
    [] Category(n) = "component task" ->
         CHOOSE p \in (DOMAIN Components) \X (1..2) :
           /\ p[2] <= Len(Components[p[1]].tasks)
           /\ to_lowercase(TaskKey(p[1], p[2])) = to_lowercase(n)
    [] OTHER -> <<0, 0>>

----------------------------------------------------------------------------
\* The resolver

\* C4 (as claimed): when a task with two dependencies that are tasks runs its
\* own commands, both dependencies have run to completion before, the first
\* declared one before the second.
C4_DependenciesInDeclaredOrder ==
  \A i \in 1..Len(log) :
    (/\ RunAt(i)
     /\ Len(TaskOf(log[i][4], log[i][5]).dependencies) = 2
     /\ \A d \in 1..2 :
          DependencyTask(TaskOf(log[i][4], log[i][5]).dependencies[d])
            # <<0, 0>>)
    => LET deps == TaskOf(log[i][4], log[i][5]).dependencies
       IN \E j \in 1..(i - 1), k \in 1..(i - 1) :
            /\ RunAt(j) /\ <<log[j][4], log[j][5]>> = DependencyTask(deps[1])
            /\ RunAt(k) /\ <<log[k][4], log[k][5]>> = DependencyTask(deps[2])
            /\ RanToCompletion(j)
            /\ RanToCompletion(k)
            /\ j + Len(log[j][3]) < k

\* C5 (as claimed): the command list handed to the supervisor for a task is
\* the task's command list in the declared order.
C5_HandedInDeclaredOrder ==
  \A i \in 1..Len(log) :
    RunAt(i) => log[i][3] = Declared(TaskOf(log[i][4], log[i][5]).commands)

\* C6: when no name matches a task, a component or a group, run_names
\* registers no Worker, starts no service, never calls init and returns the
\* error "Nothing to run".
C6_NothingToRun ==
  NoMatch =>
    /\ workers = <<>>
    /\ svcUp = {}
    /\ ~ServiceTouched
    /\ ~InitCalled
    /\ pc \notin {"loop", "retry", "respawn", "teardown"}
    /\ result \in {"none", "Nothing to run"}
    /\ (pc = "returned" => result = "Nothing to run")

C6_Witness == NoMatch /\ pc = "returned" /\ result = "Nothing to run"

TaskMatched ==
  \E i \in NameIndexes :
    Category(names[i]) \in {"project task", "component task"}

ComponentSpawned ==
  \E i \in NameIndexes :
    \/ to_lowercase(names[i]) \in ComponentNames
    \/ /\ GroupNamed(names[i]) # 0
       /\ MemberSpawns(GroupNamed(names[i])) # <<>>

SomeMatch == \E i \in NameIndexes : Category(names[i]) # "none"

RanFailing == \E i \in 1..Len(log) : RunAt(i) /\ log[i][2] \in failing

C8_GroupMembersSpawned ==
  Resolved => Spawned = ComponentSpawns(names) \o GroupSpawns(names)

C8_Witness ==
  /\ Resolved
  /\ \E i \in NameIndexes :
       /\ Category(names[i]) = "group"
       /\ Len(MemberSpawns(GroupNamed(names[i])))
            < Len(Groups[GroupNamed(names[i])].components)
       /\ Len(MemberSpawns(GroupNamed(names[i]))) >= 2
  /\ \E w \in 1..Len(workers) : workers[w].extra_env # {}

\* The Workers a name stands for when only its first category is used.
FirstCategorySpawns(n) ==
  CASE Category(n) = "component" ->
         << [component |-> ComponentNamed(n), extra_env |-> {}] >>
    [] Category(n) = "group" -> MemberSpawns(GroupNamed(n))
    [] OTHER -> <<>>

Occurrences(q, x) == Cardinality({i \in 1..Len(q) : q[i] = x})

\* C9 (as claimed): every name triggers the action of its first matching
\* category only: the Workers registered are those of the names whose first
\* category is component or group.
C9_FirstCategoryOnly ==
  Resolved =>
    \A c \in DOMAIN Components, e \in {{}} \cup {Groups[g].env : g \in DOMAIN Groups} :
      Occurrences(Spawned, [component |-> c, extra_env |-> e])
        = Cardinality({p \in NameIndexes \X (1..3) :
                         /\ p[2] <= Len(FirstCategorySpawns(names[p[1]]))
                         /\ FirstCategorySpawns(names[p[1]])[p[2]]
                              = [component |-> c, extra_env |-> e]})

----------------------------------------------------------------------------
\* The supervisor

WorkerIds == 1..Len(workers)

IsRetry(w) == Components[workers[w].component].retry

IsOneShot(w) ==
  /\ ~Components[workers[w].component].retry
  /\ ~Components[workers[w].component].keep_alive

\* The loop has taken the shutdown event of Worker w and is deciding on, or
\* performing, its retry.
Retrying(w) == pc \in {"retry", "respawn"} /\ retryOf = w

\* C1 (as claimed): a shutdown event a retry Worker emits after its process
\* exited by itself, the run not being cancelled at the moment of the exit,
\* has got exactly one re-spawn by the end of the run.
C1_RespawnUnlessCancelledAtExit ==
  pc = "returned" =>
    \A w \in WorkerIds :
      (/\ IsRetry(w)
       /\ threads[w].pc = "done"
       /\ threads[w].proc = "exited"
       /\ threads[w].exitFlag = "running")
      => Cardinality(Children(w)) = 1

\* C1 (amended): a shutdown event of a retry Worker is followed by exactly
\* one re-spawn when the interrupt handler has not fired by the time the loop
\* has handled the event, by none when the run was already cancelled at the
\* moment of the exit, and never by two; a re-spawn answers a shutdown event
\* the loop received.
C1_RespawnOnce ==
  \A w \in WorkerIds :
    IsRetry(w) =>
      /\ Cardinality(Children(w)) <= 1
      /\ (obs[w].shutdown >= 1 /\ interrupts = 0 /\ ~Retrying(w))
           => Cardinality(Children(w)) = 1
      /\ Children(w) # {} => obs[w].shutdown = 1
      /\ threads[w].exitFlag = "cancelled" => Children(w) = {}

C1_Witness ==
  \E w \in WorkerIds :
    /\ IsRetry(w)
    /\ threads[w].proc = "exited"
    /\ threads[w].exitFlag = "running"
    /\ obs[w].shutdown = 1
    /\ Cardinality(Children(w)) = 1

\* C2 (as claimed): of a Worker with retry=false and keep_alive=false whose
\* process can be started the loop has, by the end of the run, received
\* exactly one start event and exactly one shutdown event, and the Worker
\* has no re-spawn.
C2_OneStartOneShutdown ==
  pc = "returned" =>
    \A w \in WorkerIds :
      (IsOneShot(w) /\ popen_ok(workers[w].component))
      => /\ obs[w].start = 1
         /\ obs[w].shutdown = 1
         /\ Children(w) = {}

\* C3 (as claimed): the interrupt handler sends a kill signal to every Worker
\* whose process is alive and to no Worker whose process has already ended,
\* and no Worker is registered after the handler has run.
C3_KillsLiveAndNoRespawn ==
  /\ \A h \in 1..Len(hist) :
       /\ hist[h].live \subseteq hist[h].killed
       /\ hist[h].killed \cap hist[h].ended = {}
  /\ hist # <<>> => Len(workers) = hist[1].len

\* The services a Worker of the registry refers to.
Referenced ==
  {s \in DOMAIN Services :
     \E w \in WorkerIds :
       \E j \in 1..Len(Components[workers[w].component].services) :
         to_lowercase(Components[workers[w].component].services[j])
           = to_lowercase(Services[s].name)}

\* C10 (as claimed): when init has returned, every service a Worker refers
\* to has been stopped exactly once.
C10_StoppedOnce ==
  (pc = "returned" /\ InitCalled) => \A s \in Referenced : stops[s] = 1

----------------------------------------------------------------------------
\* Rendering of output

\* C11 (as claimed): every output line is rendered with the component of the
\* Worker whose channel delivered it.
C11_TaggedWithOwner ==
  \A i \in 1..Len(rendered) :
    rendered[i].tag = workers[rendered[i].from].component

\* The lines rendered for Worker w, in the order of their rendering.
RenderedOf(w) ==
  LET pos == {i \in 1..Len(rendered) : rendered[i].from = w}
      nth[k \in 0..Len(rendered)] ==
        IF k = 0 THEN <<>>
        ELSE IF k \in pos THEN Append(nth[k - 1], rendered[k].line)
             ELSE nth[k - 1]
  IN nth[Len(rendered)]

\* C12: the lines rendered for one Worker are the lines its process wrote,
\* in the order it wrote them: the k-th rendered line of a Worker is the
\* k-th line its process emitted, and no more lines are rendered than the
\* process has written.
C12_OutputInOrder ==
  \A w \in 1..Len(workers) :
    /\ Len(RenderedOf(w)) <= threads[w].out
    /\ \A k \in 1..Len(RenderedOf(w)) : RenderedOf(w)[k] = k

C12_Witness ==
  \E w \in 1..Len(workers) : Len(RenderedOf(w)) = 2

----------------------------------------------------------------------------
\* Cancellation and teardown

\* The Workers the interrupt handler has sent a kill signal.
SentKill == UNION {hist[h].killed : h \in 1..Len(hist)}

LoopLeft == pc \in {"teardown", "returned"}

\* C13 (as claimed): init does not leave its loop before it has received the
\* shutdown event of every Worker that was sent a kill signal.
C13_DrainsShutdownEvents ==
  LoopLeft => \A w \in SentKill : obs[w].shutdown >= 1

\* C14 (as claimed): when the services are stopped at the end of init, no
\* Worker has a live child process.
C14_TeardownAfterWorkers ==
  (pc = "returned" /\ \E s \in DOMAIN Services : stops[s] > 0)
    => \A w \in WorkerIds : threads[w].proc # "alive"

\* The events of the given body waiting in the channel of Worker w.
Pending(w, body) ==
  Cardinality({i \in 1..Len(chan[w]) : chan[w][i].body = body})

\* C15 (as claimed): a Worker whose process could not be spawned has emitted
\* a shutdown event: it waits in the Worker's channel or the loop received
\* it.
C15_SpawnFailureEmitsShutdown ==
  \A w \in WorkerIds :
    threads[w].pc = "panicked"
      => obs[w].shutdown + Pending(w, "ComponentShutdown") >= 1

----------------------------------------------------------------------------
\* Progress.  From the component pass of run_names on, the main thread (the
\* rest of run_names, then the event loop), the interrupt handler once it
\* has started, and the threads of the Workers all keep running; whether and
\* when a child process writes or exits, and whether an interrupt arrives,
\* is up to the environment.

MainThread ==
  \/ run_names_components
  \/ run_names_groups
  \/ run_names_finish
  \/ setup
  \/ event_loop
  \/ retry_check
  \/ respawn
  \/ teardown

WorkerThreads ==
  \/ \E w \in 1..Len(workers) : popen(w)
  \/ \E w \in 1..Len(workers) : reader_line(w)
  \/ \E w \in 1..Len(workers) : reader_eof(w)
  \/ \E w \in 1..Len(workers) : monitor(w)

LiveSpec ==
  /\ InitOf(LiveRuns)
  /\ [][Next]_vars
  /\ WF_vars(MainThread)
  /\ WF_vars(handler_mark)
  /\ WF_vars(WorkerThreads)

SpawnFailed == \E w \in WorkerIds : threads[w].pc = "panicked"

\* Every thread of a Worker has ended.
ThreadsEnded ==
  \A w \in WorkerIds :
    threads[w].pc \in {"done", "panicked"} /\ ~threads[w].reader

\* C16: a spawn failure is not fatal to the run.  The Worker of the failed
\* component is eventually marked completed; unless the run is interrupted,
\* the start event of every other component is eventually received by the
\* loop; and once the threads of all Workers have ended, init returns.
C16_SpawnFailureNotFatal ==
  /\ SpawnFailed ~>
       /\ \A w \in WorkerIds :
            threads[w].pc = "panicked" => workers[w].completed
       /\ \/ interrupts > 0
          \/ \A w \in WorkerIds :
               popen_ok(workers[w].component) => obs[w].start = 1
  /\ (SpawnFailed /\ InitCalled /\ ThreadsEnded) ~> pc = "returned"

C16_Witness ==
  /\ pc = "returned"
  /\ interrupts = 0
  /\ \E w \in WorkerIds : threads[w].pc = "panicked" /\ workers[w].completed
  /\ \E w \in WorkerIds : obs[w].start = 1 /\ obs[w].shutdown = 1

----------------------------------------------------------------------------
\* Services of a spawned component

\* The services of the project that component c declares.
DeclaredServices(c) ==
  {service_by_name(Components[c].services[j]) :
     j \in 1..Len(Components[c].services)} \ {0}

\* The events about service s in the sequence of events q.
EventsAbout(q, s) ==
  {i \in 1..Len(q) :
     q[i].body \in {"ServiceStart", "ComponentError"} /\ q[i].arg = s}

\* C17: a call of spawn_component attempts every declared service once: a
\* service that starts gives one service-start event and is up, a service
\* that does not start gives one error event, and nothing else; the thread
\* that launches the process is created and the Worker is registered.
C17_ServiceFailureOnlyReported ==
  [][Len(workers') > Len(workers) =>
       LET w == Len(workers')
           c == workers'[w].component
       IN /\ Len(workers') = Len(workers) + 1
          /\ ~workers'[w].completed /\ workers'[w].running
          /\ threads'[w].pc = "spawn"
          /\ Len(chan'[w]) = Cardinality(DeclaredServices(c))
          /\ \A s \in DeclaredServices(c) :
               /\ Cardinality(EventsAbout(chan'[w], s)) = 1
               /\ \A i \in EventsAbout(chan'[w], s) :
                    chan'[w][i].body = IF start_ok(s) THEN "ServiceStart"
                                       ELSE "ComponentError"
               /\ start_ok(s) => s \in svcUp']_vars

\* The Worker of a component with a service that does not start and one
\* that does: its process runs and the service that starts is up.
C17_Witness ==
  \E w \in WorkerIds :
    /\ \E s \in DeclaredServices(workers[w].component) : ~start_ok(s)
    /\ \E s \in DeclaredServices(workers[w].component) :
         start_ok(s) /\ s \in svcUp
    /\ threads[w].proc = "alive"

----------------------------------------------------------------------------
\* Services of a component-scoped task

\* C18 (as claimed): when the commands of a component-scoped task are run,
\* every declared service of the owning component that can be started is
\* up.
C18_ServicesUpDuringTask ==
  [][(/\ Len(log') > Len(log)
      /\ log'[Len(log) + 1][1] = "run"
      /\ log'[Len(log) + 1][4] # 0)
     => \A s \in DeclaredServices(log'[Len(log) + 1][4]) :
          start_ok(s) => s \in svcUp]_vars

----------------------------------------------------------------------------
\* Environment of a spawned component

\* The value of key k in the highest of the three layers that defines it.
Layered(c, extra_env, k) ==
  IF k \in Keys(extra_env) THEN Get(extra_env, k)
  ELSE IF k \in Keys(Components[c].env) THEN Get(Components[c].env, k)
  ELSE Get(ProcessEnv, k)

\* C19: the process of a Worker receives the keys of the process
\* environment, of the component's env and of the extra env, each with the
\* value, expanded, of the highest layer that defines it: extra env over
\* component env over process environment.
C19_EnvLayered ==
  \A w \in WorkerIds :
    threads[w].proc # "none" =>
      LET c == workers[w].component
          x == workers[w].extra_env
          e == threads[w].env
      IN /\ Keys(e) = Keys(ProcessEnv) \cup Keys(Components[c].env) \cup Keys(x)
         /\ \A k \in Keys(e) :
              /\ Cardinality({p \in e : p[1] = k}) = 1
              /\ Get(e, k) = expand_env(Layered(c, x, k))

\* A started process with a key defined in all three layers, one defined in
\* two, and one in each layer alone.
C19_Witness ==
  \E w \in WorkerIds :
    /\ threads[w].proc = "alive"
    /\ Get(threads[w].env, "MODE") = "grp"
    /\ Get(threads[w].env, "PORT") = "1"
    /\ Get(threads[w].env, "HOME") = "h"
    /\ Get(threads[w].env, "DIR") = "h"
    /\ Get(threads[w].env, "TIER") = "t"

----------------------------------------------------------------------------
\* The call of init

InitCalls == Cardinality({i \in 1..Len(log) : log[i][1] = "init"})

\* C20: run_names calls init at most once.  From the call on, the Workers
\* run_names registers are all there: one per name that is a component, then
\* the members of every name that is a group, and at least one.  A run that
\* spawns a component and in which no task fails calls init; a run whose
\* names match tasks only, none of them failing, returns Ok and init is
\* never called.
C20_InitOnceAfterNames ==
  /\ InitCalls <= 1
  /\ InitCalled =>
       /\ pc \in {"loop", "retry", "respawn", "teardown", "returned"}
       /\ Spawned = ComponentSpawns(names) \o GroupSpawns(names)
       /\ Spawned # <<>>
  /\ (pc = "returned" /\ ComponentSpawned /\ ~RanFailing) => InitCalls = 1
  /\ (pc = "returned" /\ TaskMatched /\ ~ComponentSpawned /\ ~RanFailing)
       => (result = "ok" /\ ~InitCalled)
  /\ (pc = "returned" /\ workers = <<>>) => ~InitCalled

C20_Witness ==
  /\ pc = "returned"
  /\ InitCalls = 1
  /\ Len(Spawned) = 2
  /\ TaskMatched

----------------------------------------------------------------------------
\* Iteration of Commands

\* The value an iteration of c to its end leaves behind.
RECURSIVE Exhausted(_)
Exhausted(c) ==
  IF CommandsNext(c).some THEN Exhausted(CommandsNext(c).rest) ELSE c

\* The strings that occur in the sequences q and r.
Strings(q, r) == {q[i] : i \in 1..Len(q)} \cup {r[i] : i \in 1..Len(r)}

\* C21: the iteration of the Commands of a task that is run yields every
\* command string as often as the Commands holds it, no other string, and
\* then ends: next returns None from then on.
C21_IterationYieldsEachOnce ==
  \A i \in 1..Len(log) :
    RunAt(i) =>
      LET c == TaskOf(log[i][4], log[i][5]).commands
      IN /\ Len(log[i][3]) = Len(Declared(c))
         /\ \A x \in Strings(log[i][3], Declared(c)) :
              Occurrences(log[i][3], x) = Occurrences(Declared(c), x)
         /\ ~CommandsNext(Exhausted(c)).some
         /\ ~CommandsNext(CommandsNext(Exhausted(c)).rest).some

\* A Multiple with a repeated command has been iterated.
C21_Witness ==
  /\ pc = "returned"
  /\ \E i \in 1..Len(log) :
       RunAt(i) /\ Len(log[i][3]) = 3 /\ Occurrences(log[i][3], "d") = 2

----------------------------------------------------------------------------
\* Project::setup: the clones and init commands it performs.

InSetup == pc \in {"setup", "setup_done"}

CmpIndex(n) == CHOOSE c \in DOMAIN Components : Components[c].name = n

SetupEntriesOf(c) == SelectSeq(log, LAMBDA x : x[2] = Components[c].name)

\* C22: setup goes through the components in declaration order; a component
\* with a repository whose clone succeeds has its init commands run one at a
\* time in declared order after the clone; a component without a repository
\* or whose clone fails has no init command run; and the loop goes on to the
\* remaining components in either case.
C22_SetupInOrder ==
  InSetup =>
    /\ \A i \in DOMAIN log : log[i][1] \in {"clone", "init_cmd"}
    /\ \A i, j \in DOMAIN log :
         i < j => CmpIndex(log[i][2]) <= CmpIndex(log[j][2])
    /\ \A c \in DOMAIN Components :
         LET e == SetupEntriesOf(c) IN
           IF c >= idx \/ repo(c) = "None"
             THEN e = <<>>
             ELSE /\ Len(e) >= 1
                  /\ e[1][1] = "clone"
                  /\ IF e[1][3]
                       THEN /\ Len(e) = 1 + Len(init(c))
                            /\ \A k \in 1..Len(init(c)) :
                                 e[k + 1] =
                                   <<"init_cmd", Components[c].name, init(c)[k]>>
                       ELSE Len(e) = 1
    /\ pc = "setup_done" => idx = Len(Components) + 1

C22_Witness ==
  /\ pc = "setup_done"
  /\ log = << <<"clone", "api", TRUE>>, <<"init_cmd", "api", "i1">>,
              <<"init_cmd", "api", "i2">>, <<"clone", "job", FALSE>>,
              <<"clone", "bad", TRUE>>, <<"init_cmd", "bad", "x1">> >>

----------------------------------------------------------------------------
\* C23: the event loop of init is left only when the registry is non-empty
\* and every registered Worker is completed; while the registry is empty the
\* loop keeps waiting, so init has not returned and is not in its teardown.
C23_LoopLeftOnlyWhenAllCompleted ==
  /\ [][(pc = "loop" /\ pc' = "teardown")
         => (Len(workers) > 0 /\ AllCompleted /\ workers' = workers)]_vars
  /\ []((InitCalled /\ workers = <<>>) => pc = "loop")

WaitingOnEmptyRegistry ==
  pc = "loop" /\ workers = <<>> /\ InitCalled /\ ~running /\ hpc = "idle"

C23_Witness == pc = "teardown" /\ Len(workers) = 2 /\ AllCompleted

----------------------------------------------------------------------------
\* C24 (as claimed): once the interrupt handler has set the shared flag to
\* false, spawn_component is not called and no Worker is registered any more.
C24_NoSpawnAfterCancel ==
  [][~running => Len(workers') = Len(workers)]_vars

----------------------------------------------------------------------------
\* C25 (as claimed): the Worker a retry registers has the component and the
\* extra env of the Worker whose channel delivered the shutdown event, and
\* from its registration on that old Worker no longer counts as a running,
\* uncompleted Worker.
C25_RetryReplacesOld ==
  \A x \in WorkerIds :
    workers[x].parent # 0 =>
      LET w == workers[x].parent
      IN /\ workers[x].component = workers[w].component
         /\ workers[x].extra_env = workers[w].extra_env
         /\ ~(workers[w].running /\ ~workers[w].completed)

----------------------------------------------------------------------------
IsKeepAlive(w) == Components[workers[w].component].keep_alive

\* The shutdown events Worker w has emitted: those still in its channel and
\* those the loop has received.
ShutdownsEmitted(w) ==
  obs[w].shutdown
    + Cardinality({i \in 1..Len(chan[w]) :
                     chan[w][i].body = "ComponentShutdown"})

\* C26: the worker of a keep_alive component does not end when its process
\* exits by itself: it has emitted no shutdown event unless a kill signal was
\* sent to it, and it is not re-spawned unless the component also has retry.
C26_KeepAliveOutlivesExit ==
  \A w \in WorkerIds :
    IsKeepAlive(w) =>
      /\ (ShutdownsEmitted(w) > 0 \/ threads[w].pc = "done")
           => \E h \in 1..Len(hist) : w \in hist[h].killed
      /\ (threads[w].proc = "exited" /\ kill[w] = 0 /\ hist = <<>>)
           => threads[w].pc # "done"
      /\ ~IsRetry(w) => Children(w) = {}

\* The process had exited by itself; the worker ended on the kill signal.
C26_Witness ==
  \E w \in WorkerIds :
    /\ IsKeepAlive(w)
    /\ threads[w].proc = "exited"
    /\ threads[w].pc = "done"
    /\ obs[w].shutdown = 1

----------------------------------------------------------------------------
\* C27: when the channel of a Worker is closed instead of yielding an event,
\* the loop marks the Worker not running and completed, and the kill signal
\* it forwards, which nobody receives, is dropped without an error; the step
\* registers no Worker and starts no retry, whatever the retry flag; and the
\* Worker is never selected on again: it stays not running and no event of
\* it is taken or rendered any more.
C27_ClosedChannelRetiresWorker ==
  [][\A r \in WorkerIds :
       /\ (workers[r].running /\ ~workers'[r].running)
            => /\ chan[r] = <<>>
               /\ Disconnected(r)
               /\ workers'[r].completed
               /\ kill' = kill
               /\ Len(workers') = Len(workers)
               /\ pc = "loop" /\ pc' = "loop"
               /\ retryOf' = retryOf
       /\ ~workers[r].running
            => /\ ~workers'[r].running
               /\ workers'[r].completed
               /\ chan'[r] = chan[r]
               /\ obs'[r] = obs[r]
               /\ (pc' = "retry" => retryOf' # r)]_vars

\* The closed channel of a retry Worker has been handled, without a retry.
C27_Witness ==
  \E w \in WorkerIds :
    /\ IsRetry(w)
    /\ ~workers[w].running
    /\ workers[w].completed
    /\ Cardinality(Children(w)) = 1
    /\ running
    /\ pc = "loop"

----------------------------------------------------------------------------
\* The loop takes an event of the given bodies from the channel of Worker r.
Takes(r, bodies) ==
  /\ pc = "loop"
  /\ chan[r] # <<>>
  /\ Head(chan[r]).body \in bodies
  /\ chan'[r] = Tail(chan[r])

\* The timeout of the select, or the sleep: an iteration that takes nothing.
Tick ==
  /\ pc = "loop" /\ pc' = "loop"
  /\ ~LoopDone
  /\ ~\E k \in 1..Len(running_workers) : Ready(k)
  /\ threads' = threads /\ hpc' = hpc

\* C28: handling an output, start, service-started or error event, and a
\* timeout tick of the select, leave the registry as it is: no Worker is
\* added and no running or completed flag changes.
C28_EventsLeaveRegistry ==
  [][((\E r \in WorkerIds :
         Takes(r, {"Output", "ComponentStart", "ServiceStart",
                   "ComponentError"}))
      \/ Tick)
     => workers' = workers]_vars

\* An error event of a service that could not be started has been taken
\* and the Worker is still running and not completed.
C28_Witness ==
  \E w \in WorkerIds :
    /\ Components[workers[w].component].name = "job"
    /\ chan[w] = <<>>
    /\ threads[w].pc = "monitor"
    /\ obs[w].start = 1
    /\ workers[w].running /\ ~workers[w].completed

----------------------------------------------------------------------------
\* C29 (as claimed): when the commands of a task are run, every name of its
\* dependencies list has been resolved like a top-level target: a name of a
\* task has had that task run, a name of a component has had that component
\* spawned, and a name of a group has had the group's members spawned.
C29_DependenciesResolvedLikeTargets ==
  \A i \in 1..Len(log) :
    RunAt(i) =>
      LET deps == TaskOf(log[i][4], log[i][5]).dependencies
      IN \A d \in 1..Len(deps) :
           CASE DependencyTask(deps[d]) # <<0, 0>> ->
                  \E j \in 1..(i - 1) :
                    /\ RunAt(j)
                    /\ <<log[j][4], log[j][5]>> = DependencyTask(deps[d])
             [] ComponentNamed(deps[d]) # 0 ->
                  \E w \in WorkerIds :
                    workers[w].component = ComponentNamed(deps[d])
             [] GroupNamed(deps[d]) # 0 ->
                  \A m \in 1..Len(Groups[GroupNamed(deps[d])].components) :
                    LET c == ComponentNamed(
                               Groups[GroupNamed(deps[d])].components[m])
                    IN c # 0 => \E w \in WorkerIds : workers[w].component = c
             [] OTHER -> TRUE

----------------------------------------------------------------------------
\* C30 (as claimed): the env of a group lies below the env of the member
\* component: a key defined in both reaches the spawned process with the
\* component's value.
C30_ComponentEnvOverGroupEnv ==
  \A w \in WorkerIds :
    threads[w].proc # "none" =>
      \A k \in Keys(workers[w].extra_env)
                \cap Keys(Components[workers[w].component].env) :
        Get(threads[w].env, k)
          = expand_env(Get(Components[workers[w].component].env, k))

----------------------------------------------------------------------------
\* Cyclic dependencies of project tasks

\* The project tasks the dependencies of project task t name.
DirectDeps(t) ==
  {find_project_task(Tasks[t].dependencies[d]) :
     d \in 1..Len(Tasks[t].dependencies)} \ {0}

RECURSIVE ReachableIn(_, _)
ReachableIn(S, n) ==
  IF n = 0 THEN S
  ELSE ReachableIn(S \cup UNION {DirectDeps(t) : t \in S}, n - 1)

\* Project task t depends on itself, directly or through other tasks.
Cyclic(t) == t \in ReachableIn(DirectDeps(t), Len(Tasks))

\* A name of the run is a project task that is on, or leads into, a cycle,
\* and no task of the run fails.
RunsIntoCycle ==
  /\ failing = {}
  /\ \E i \in NameIndexes :
       /\ find_project_task(names[i]) # 0
       /\ \E t \in ReachableIn({find_project_task(names[i])}, Len(Tasks)) :
            Cyclic(t)

CycleCommandsRun ==
  \E i \in 1..Len(log) : RunAt(i) /\ log[i][4] = 0 /\ Cyclic(log[i][5])

\* C31 (as claimed): the resolution of a project task with a cyclic
\* dependency chain never terminates: the resolver is for ever inside
\* run_task_names, no task of the cycle runs its commands and run_names does
\* not return.
C31_CycleNeverTerminates ==
  RunsIntoCycle => (pc = "run_task_names" /\ ~CycleCommandsRun)

\* C31 (amended): the resolver recurses through the cycle until the nested
\* calls no longer fit on the stack, and the process is then aborted; up to
\* that point no task of the cycle has run its commands, and run_names never
\* returns.  A run without a cycle is not aborted.
C31_CycleOverflowsStack ==
  /\ RunsIntoCycle =>
       /\ pc \in {"run_task_names", "aborted"}
       /\ ~CycleCommandsRun
       /\ result = "none"
  /\ pc = "aborted" => Overflow
  /\ Overflow => RunsIntoCycle
  /\ Len(stack) <= MaxStack + 1

\* The process was aborted with the first task of the cycle entered twice.
C31_Witness ==
  /\ pc = "aborted"
  /\ Cardinality({k \in 1..Len(stack) :
                    stack[k].fn = "rpt"
                    /\ stack[k].t = find_project_task("ping")}) = 2
  /\ log = <<>>

----------------------------------------------------------------------------
\* Termination of init

\* init runs on Workers that all have retry=false and keep_alive=false.
OneShotRun == InitCalled /\ \A w \in WorkerIds : IsOneShot(w)

\* Every process has exited by itself or could not be spawned.
AllExited ==
  \A w \in WorkerIds :
    threads[w].proc = "exited" \/ threads[w].pc = "panicked"

\* C32: when every spawned component has retry=false and keep_alive=false
\* and the process of each has exited or could not be spawned, then, the
\* threads being scheduled fairly, init returns, unless the run is cancelled
\* in between.
C32_OneShotRunReturns ==
  (OneShotRun /\ AllExited /\ interrupts = 0)
    ~> (pc = "returned" \/ interrupts > 0)

C32_Witness ==
  /\ pc = "returned"
  /\ OneShotRun
  /\ interrupts = 0
  /\ Len(workers) = 2
  /\ \E w \in WorkerIds : threads[w].proc = "exited" /\ obs[w].shutdown = 1
  /\ \E w \in WorkerIds : threads[w].pc = "panicked"

\* C33 (as claimed): once the interrupt handler has run, init eventually
\* returns, whatever the interleaving and whether or not the processes would
\* exit by themselves.
C33_ReturnsAfterInterrupt == (InitCalled /\ hist # <<>>) ~> pc = "returned"

----------------------------------------------------------------------------
\* C34 (as claimed): when init has returned, every line a process wrote
\* before it exited by itself has been rendered; already so in a run that
\* is not cancelled.
C34_NoOutputLost ==
  (pc = "returned" /\ interrupts = 0) =>
    \A w \in WorkerIds :
      threads[w].proc = "exited" => Len(RenderedOf(w)) = threads[w].out

----------------------------------------------------------------------------
\* The registry is non-empty, no Worker is running and some Worker is not
\* completed: the loop would sleep for ever.
SleepsForEver ==
  /\ Len(workers) > 0
  /\ \A w \in WorkerIds : ~workers[w].running
  /\ \E w \in WorkerIds : ~workers[w].completed

\* C35: a Worker with running=false has completed=true, so the state in
\* which the loop would sleep for ever on a non-empty registry is never
\* reached.
C35_NotRunningIsCompleted ==
  /\ \A w \in WorkerIds : ~workers[w].running => workers[w].completed
  /\ ~SleepsForEver

\* One Worker has been taken out of the selection while another is still
\* running and waited for.
C35_Witness ==
  /\ \E w \in WorkerIds : ~workers[w].running /\ workers[w].completed
  /\ \E w \in WorkerIds : workers[w].running /\ ~workers[w].completed
  /\ pc = "loop"

----------------------------------------------------------------------------
\* The Workers of the chain Worker w belongs to: the Worker of the first
\* spawn and those of its retries.
Chain(w) ==
  LET root[x \in WorkerIds] ==
        IF workers[x].parent = 0 THEN x ELSE root[workers[x].parent]
  IN {x \in WorkerIds : root[x] = root[w]}

\* C36: of the Workers of one chain at most one has a live process: a
\* Worker that has sent its shutdown event has a process that exited or was
\* killed, and a Worker is registered by a retry only when the shutdown
\* event of the Worker before it has been received.
C36_OneLiveProcessPerChain ==
  \A w \in WorkerIds :
    /\ Cardinality({x \in Chain(w) : threads[x].proc = "alive"}) <= 1
    /\ ShutdownsEmitted(w) > 0 => threads[w].proc \in {"exited", "killed"}
    /\ workers[w].parent # 0 =>
         /\ obs[workers[w].parent].shutdown >= 1
         /\ threads[workers[w].parent].proc \in {"exited", "killed"}

\* The process of a retry is alive, the one before it has exited.
C36_Witness ==
  \E w \in WorkerIds :
    /\ workers[w].parent # 0
    /\ threads[w].proc = "alive"
    /\ threads[workers[w].parent].proc = "exited"
    /\ Cardinality(Chain(w)) = 2

----------------------------------------------------------------------------
\* The run entry at position i of the log is that of a component-scoped task
\* whose body returns an error.
FailedComponentTaskAt(i) ==
  RunAt(i) /\ log[i][4] # 0 /\ log[i][2] \in failing

\* C37: when the body of a component-scoped task returns an error, whether
\* the task was named or is a dependency, the error is propagated at once:
\* no service is stopped and no further task is run after it, the services
\* started for the task stay up, no later name is processed, so that no
\* Worker is registered and init is not called, and run_names returns the
\* error.
C37_ErrorSkipsServiceStop ==
  \A i \in 1..Len(log) :
    FailedComponentTaskAt(i) =>
      /\ \A j \in (i + 1)..Len(log) :
           log[j][1] = "cmd" /\ log[j][2] = log[i][2]
      /\ \A s \in DeclaredServices(log[i][4]) :
           start_ok(s) => s \in svcUp
      /\ workers = <<>>
      /\ pc \in {"run_task_names", "returned"}
      /\ pc = "returned" => result = "task failed"

\* run_names has returned the error of the first of three names; the
\* service of its component is still up.
C37_Witness ==
  /\ pc = "returned"
  /\ result = "task failed"
  /\ Len(names) = 3
  /\ \E i \in 1..Len(log) : FailedComponentTaskAt(i)
  /\ svcUp # {}

----------------------------------------------------------------------------
\* The lock of the registry

\* The iteration of the loop in two steps: the lock is taken, and the
\* iteration is done under it.
LockNext == loop_lock \/ loop_iteration \/ Steps

LockMainThread ==
  \/ run_names_components
  \/ run_names_groups
  \/ run_names_finish
  \/ setup
  \/ loop_lock
  \/ loop_iteration
  \/ retry_check
  \/ respawn
  \/ teardown

\* The threads are scheduled fairly, and a thread that waits for a lock that
\* is given up again and again gets it in the end.
LockSpec ==
  /\ InitOf(LiveRuns)
  /\ [][LockNext]_vars
  /\ WF_vars(LockMainThread)
  /\ SF_vars(handler_mark)
  /\ WF_vars(WorkerThreads)

====
